---- MODULE Spec2Model ----
(***************************************************************************)
(* Round-Robin dispatcher (quantum 1), Gantt-recording draft               *)
(* (src/dispatcher.c lines 250-551) together with the worker program       *)
(* (src/jobprog.c lines 1-59).                                             *)
(*                                                                         *)
(* Pointers to job_t are positive integers, NULL is 0.  The heap is the    *)
(* function `job` from allocated pointers to job_t records; free() removes *)
(* the pointer from its domain.  A process id is an index into `proc`.     *)
(***************************************************************************)
EXTENDS Integers, Sequences, FiniteSets, TLC

\* ------------------------------------------------------------- bounds
MaxJobs == 3
MaxArrival == 2
MaxService == 2

\* ------------------------------------------------------------- constants
NULL == 0
IDLE == -1
MAX_TIME == 2000

VARIABLES
    job,          \* heap of job_t records, indexed by pointer
    input_head,   \* head of the arrival (input) list
    rr_head,      \* head of the ready queue
    rr_tail,      \* tail of the ready queue
    gantt,        \* written cells of gantt[], a sequence: gantt[i+1] is C's gantt[i]
    gantt_index,  \* next free cell of gantt[]
    completion,   \* completion[] of main, C index i is completion[i+1]
    arrivals,     \* arrivals[] of main
    bursts,       \* bursts[] of main
    t,            \* tick counter of main
    current,      \* the assigned slot of main
    pc,           \* position of main in the dispatcher loop
    proc,         \* worker processes: sequence of records, index = pid
    arrived_log,  \* job ids printed by move_arrivals_to_rr, in order
    arrived_at,   \* the tick printed with each of them, in the same order
    signal_log    \* fork and kill calls of main, in order: [pid, sig]

vars == <<job, input_head, rr_head, rr_tail, gantt, gantt_index, completion,
          arrivals, bursts, t, current, pc, proc, arrived_log, arrived_at,
          signal_log>>

\* ------------------------------------------------------------- job list input
\* One parsed CSV record: arrival and service (the priority field is unused).
\* Arrival times are non-negative and service times positive.
Records == [arrival : 0..MaxArrival, service : 1..MaxService]

RECURSIVE SeqsUpTo(_, _)
SeqsUpTo(S, n) ==
    IF n = 0 THEN {<<>>}
    ELSE LET shorter == SeqsUpTo(S, n - 1)
         IN  shorter \cup {Append(s, x) : s \in {q \in shorter : Len(q) = n - 1}, x \in S}

JobLists == SeqsUpTo(Records, MaxJobs)

\* The Stallings Figure 9.5 job set.
StallingsJobs ==
    << [arrival |-> 0, service |-> 3], [arrival |-> 2, service |-> 6],
       [arrival |-> 4, service |-> 4], [arrival |-> 6, service |-> 5],
       [arrival |-> 8, service |-> 2] >>

\* load_jobs: one job_t per record, ids from job_counter, linked in file order.
load_jobs(recs) ==
    [i \in 1..Len(recs) |->
        [id        |-> i,
         arrival   |-> recs[i].arrival,
         total_cpu |-> recs[i].service,
         remaining |-> recs[i].service,
         pid       |-> -1,
         state     |-> "NOT_STARTED",
         next      |-> IF i < Len(recs) THEN i + 1 ELSE NULL]]

\* ------------------------------------------------------------- list walks
\* The pointers reachable from p through next, in order (fuel bounds the walk).
RECURSIVE Walk(_, _, _)
Walk(heap, p, fuel) ==
    IF p = NULL \/ fuel = 0 \/ p \notin DOMAIN heap THEN <<>>
    ELSE <<p>> \o Walk(heap, heap[p].next, fuel - 1)

ListOf(heap, p) == Walk(heap, p, Cardinality(DOMAIN heap) + 1)

RRSeq == ListOf(job, rr_head)
InputSeq == ListOf(job, input_head)

Range(s) == {s[i] : i \in DOMAIN s}

\* ------------------------------------------------------------- queue functions
\* The queue functions act on a memory m = [job, input_head, rr_head, rr_tail, log].
Mem == [job |-> job, input_head |-> input_head, rr_head |-> rr_head,
        rr_tail |-> rr_tail, log |-> arrived_log]

\* Variant of enqueue_rr that links the job in at the head of the queue.
enqueue_rr_at_head(m, j) ==
    IF m.rr_tail = NULL
    THEN [m EXCEPT !.job = [m.job EXCEPT ![j].next = NULL], !.rr_head = j, !.rr_tail = j]
    ELSE [m EXCEPT !.job = [m.job EXCEPT ![j].next = m.rr_head], !.rr_head = j]

enqueue_rr(m, j) ==
    LET h == [m.job EXCEPT ![j].next = NULL]
    IN  IF m.rr_tail = NULL
        THEN [m EXCEPT !.job = h, !.rr_head = j, !.rr_tail = j]
        ELSE [m EXCEPT !.job = [h EXCEPT ![m.rr_tail].next = j], !.rr_tail = j]

\* Variant of dequeue_rr that leaves rr_tail alone when the queue becomes empty.
dequeue_rr_keeps_tail(m) ==
    LET j == m.rr_head
    IN  IF j = NULL THEN [m |-> m, j |-> NULL]
        ELSE [m |-> [m EXCEPT !.rr_head = m.job[j].next,
                              !.job = [m.job EXCEPT ![j].next = NULL]],
              j |-> j]

\* Returns the memory after the call and the returned pointer j.
dequeue_rr(m) ==
    LET j == m.rr_head
    IN  IF j = NULL THEN [m |-> m, j |-> NULL]
        ELSE LET nh == m.job[j].next
             IN  [m |-> [m EXCEPT !.rr_head = nh,
                                  !.rr_tail = IF nh = NULL THEN NULL ELSE m.rr_tail,
                                  !.job = [m.job EXCEPT ![j].next = NULL]],
                  j |-> j]

\* Variant of pop_input_if_arrival_le that clears j->next before it reads it to
\* advance input_head, so the rest of the arrival list is lost.
pop_input_clear_first(m, tick) ==
    IF m.input_head = NULL THEN [m |-> m, j |-> NULL]
    ELSE IF m.job[m.input_head].arrival <= tick
         THEN LET j == m.input_head
              IN  [m |-> [m EXCEPT !.input_head = NULL,
                                   !.job = [m.job EXCEPT ![j].next = NULL]],
                   j |-> j]
         ELSE [m |-> m, j |-> NULL]

pop_input_if_arrival_le(m, tick) ==
    IF m.input_head = NULL THEN [m |-> m, j |-> NULL]
    ELSE IF m.job[m.input_head].arrival <= tick
         THEN LET j == m.input_head
              IN  [m |-> [m EXCEPT !.input_head = m.job[j].next,
                                   !.job = [m.job EXCEPT ![j].next = NULL]],
                   j |-> j]
         ELSE [m |-> m, j |-> NULL]

\* Variant of any_jobs_left that looks at the ready queue only.
any_jobs_left_rr_only(m) == m.rr_head # NULL

any_jobs_left(m) == m.input_head # NULL \/ m.rr_head # NULL

\* ------------------------------------------------------------- initial state
InitWith(recs) ==
    /\ job = load_jobs(recs)
    /\ input_head = IF Len(recs) > 0 THEN 1 ELSE NULL
    /\ rr_head = NULL
    /\ rr_tail = NULL
    /\ gantt = <<>>
    /\ gantt_index = 0
    /\ completion = [i \in 1..Len(recs) |-> 0]
    /\ arrivals = [i \in 1..Len(recs) |-> recs[i].arrival]
    /\ bursts = [i \in 1..Len(recs) |-> recs[i].service]
    /\ t = 0
    /\ current = NULL
    /\ pc = "while"
    /\ proc = <<>>
    /\ arrived_log = <<>>
    /\ arrived_at = <<>>
    /\ signal_log = <<>>

Init == \E recs \in JobLists : InitWith(recs)

SetMem(m) ==
    /\ job' = m.job
    /\ input_head' = m.input_head
    /\ rr_head' = m.rr_head
    /\ rr_tail' = m.rr_tail
    /\ arrived_log' = m.log

\* ------------------------------------------------------------- worker processes
\* fork + exec of ./jobprog: a new process, running, with keep_running = 1.
NewWorker == [st |-> "running", keep_running |-> TRUE, sigint |-> FALSE]

fork(procs) == [procs |-> Append(procs, NewWorker), pid |-> Len(procs) + 1]

\* fork() fails: no process is created and -1 is returned.
fork_fails(procs) == [procs |-> procs, pid |-> -1]

\* kill(pid, sig).  SIGTSTP and SIGCONT have their default (job control) effect;
\* SIGINT is caught by the worker's handler, so it is left pending for it.
signal(w, sig) ==
    IF w.st \in {"exited", "reaped"} THEN w
    ELSE IF sig = "SIGINT" THEN [w EXCEPT !.sigint = TRUE]
    ELSE IF sig = "SIGTSTP" THEN [w EXCEPT !.st = "stopped"]
    ELSE IF sig = "SIGCONT" THEN [w EXCEPT !.st = "running"]
    ELSE w

\* kill(pid, sig): to the process pid; with pid = -1, to every process the
\* caller may signal, which includes all of its workers.
kill(procs, pid, sig) ==
    IF pid = -1 THEN [p \in DOMAIN procs |-> signal(procs[p], sig)]
    ELSE IF pid \notin DOMAIN procs THEN procs
    ELSE [procs EXCEPT ![pid] = signal(procs[pid], sig)]

\* One entry of the signal log.
Sent(pid, sig) == [pid |-> pid, sig |-> sig]

DispatcherVars == <<job, input_head, rr_head, rr_tail, gantt, gantt_index,
                    completion, arrivals, bursts, t, current, pc, arrived_log,
                    arrived_at, signal_log>>

\* jobprog.c sigint_handler: runs when a pending SIGINT is delivered to a
\* process that is not stopped.
sigint_handler(p) ==
    /\ proc[p].st = "running"
    /\ proc[p].sigint
    /\ proc' = [proc EXCEPT ![p].sigint = FALSE, ![p].keep_running = FALSE]
    /\ UNCHANGED DispatcherVars

\* jobprog.c main: the while (keep_running) loop ends and the process exits.
worker_exit(p) ==
    /\ proc[p].st = "running"
    /\ ~proc[p].keep_running
    /\ proc' = [proc EXCEPT ![p].st = "exited"]
    /\ UNCHANGED DispatcherVars

\* ------------------------------------------------------------- dispatcher loop
\* Variants of the loop's tests and assignments (each a one-token slip).
TimeUpEarly(rem) == rem <= 1
TimeUpLate(rem) == rem < 0
NeverPreempt(m) == FALSE
CompletionTickBefore(tick) == tick - 1
GanttEntryZeroIdle(heap, cur) == IF cur # NULL THEN heap[cur].id ELSE 0
preempt_keep_state(m, cur) == enqueue_rr(m, cur)

\* Variant of start_or_resume that starts the worker but leaves the job
\* NOT_STARTED.
start_keeps_not_started(m, procs, f) ==
    LET r == dequeue_rr(m)
        j == r.j
    IN  IF r.m.job[j].state = "NOT_STARTED"
        THEN [m     |-> [r.m EXCEPT !.job[j].pid = f.pid],
              procs |-> f.procs,
              cur   |-> j,
              sent  |-> <<Sent(f.pid, "fork")>>]
        ELSE IF r.m.job[j].state = "SUSPENDED"
        THEN [m     |-> [r.m EXCEPT !.job[j].state = "RUNNING"],
              procs |-> kill(procs, r.m.job[j].pid, "SIGCONT"),
              cur   |-> j,
              sent  |-> <<Sent(r.m.job[j].pid, "SIGCONT")>>]
        ELSE [m |-> r.m, procs |-> procs, cur |-> j, sent |-> <<>>]

\* Variant of preempt that writes the wrong state constant.
preempt_as_not_started(m, cur) ==
    enqueue_rr([m EXCEPT !.job[cur].state = "NOT_STARTED"], cur)

\* Variant of preempt that links the suspended job in at the head of the queue.
preempt_to_head(m, cur) ==
    enqueue_rr_at_head([m EXCEPT !.job[cur].state = "SUSPENDED"], cur)

\* Variant of the contention test that looks at the arrival list.
OthersWaitingInput(m) == m.input_head # NULL

\* Variant of the completion tick that adds one to the tick counter.
CompletionTickAfter(tick) == tick + 1

\* Variant of the contention test that is always true.
AlwaysPreempt(m) == TRUE

Charge(rem) == rem - 1

TimeUp(rem) == rem <= 0

OthersWaiting(m) == m.rr_head # NULL

CompletionTick(tick) == tick

GanttEntry(heap, cur) == IF cur # NULL THEN heap[cur].id ELSE IDLE

\* Step 4.ii.c: suspend the running job and put it back on the ready queue.
preempt(m, cur) == enqueue_rr([m EXCEPT !.job[cur].state = "SUSPENDED"], cur)

\* First test of while (any_jobs_left() || current != NULL), on entry to the loop.
While ==
    /\ pc = "while"
    /\ pc' = IF any_jobs_left(Mem) \/ current # NULL THEN "admit" ELSE "done"
    /\ UNCHANGED <<job, input_head, rr_head, rr_tail, gantt, gantt_index, completion,
                   arrivals, bursts, t, current, proc, arrived_log, arrived_at,
                   signal_log>>

\* Step 4.i: one turn of the while loop of move_arrivals_to_rr(t): pop the head
\* of the arrival list if it is due, print it and enqueue it; the loop ends
\* when pop_input_if_arrival_le returns NULL.
Admit ==
    /\ pc = "admit"
    /\ \E r \in {pop_input_if_arrival_le(Mem, t)} :
          IF r.j = NULL
          THEN /\ pc' = "run"
               /\ UNCHANGED <<job, input_head, rr_head, rr_tail, arrived_log, arrived_at>>
          ELSE /\ \E m \in {enqueue_rr([r.m EXCEPT !.log = Append(@, r.m.job[r.j].id)], r.j)} :
                     SetMem(m)
               /\ arrived_at' = Append(arrived_at, t)
               /\ pc' = "admit"
    /\ UNCHANGED <<gantt, gantt_index, completion, arrivals, bursts, t, current, proc,
                   signal_log>>

\* Step 4.ii: charge the running job, then finish it, preempt it or let it go on.
Run ==
    /\ pc = "run"
    /\ IF current = NULL
       THEN /\ pc' = "dispatch"
            /\ UNCHANGED <<job, input_head, rr_head, rr_tail, arrived_log, current, proc,
                           signal_log>>
       ELSE \E rem \in {Charge(job[current].remaining)} :
            \E m \in {[Mem EXCEPT !.job[current].remaining = rem]} :
               IF TimeUp(rem)
               THEN /\ proc' = kill(proc, job[current].pid, "SIGINT")
                    /\ signal_log' = Append(signal_log, Sent(job[current].pid, "SIGINT"))
                    /\ SetMem(m)
                    /\ current' = current
                    /\ pc' = "wait"
               ELSE IF OthersWaiting(m)
               THEN /\ proc' = kill(proc, job[current].pid, "SIGTSTP")
                    /\ signal_log' = Append(signal_log, Sent(job[current].pid, "SIGTSTP"))
                    /\ \E m2 \in {preempt(m, current)} : SetMem(m2)
                    /\ current' = NULL
                    /\ pc' = "dispatch"
               ELSE /\ SetMem(m)
                    /\ UNCHANGED <<current, proc, signal_log>>
                    /\ pc' = "dispatch"
    /\ UNCHANGED <<gantt, gantt_index, completion, arrivals, bursts, t, arrived_at>>

\* waitpid(current->pid, NULL, 0) returns once the worker has exited; then the
\* completion tick is stored and the job is freed.
WaitChild ==
    /\ pc = "wait"
    /\ job[current].pid \in DOMAIN proc
    /\ proc[job[current].pid].st = "exited"
    /\ proc' = [proc EXCEPT ![job[current].pid].st = "reaped"]
    /\ completion' = [completion EXCEPT ![job[current].id] = CompletionTick(t)]
    /\ job' = [p \in DOMAIN job \ {current} |-> job[p]]
    /\ current' = NULL
    /\ pc' = "dispatch"
    /\ UNCHANGED <<input_head, rr_head, rr_tail, gantt, gantt_index, arrivals,
                   bursts, t, arrived_log, arrived_at, signal_log>>

\* Step 4.iii, the body of the if: dequeue the head of the ready queue, start it
\* (fork + exec) or resume it (SIGCONT), and make it current.  The result is the
\* memory, the processes and the assigned slot after the step.
\* f is what fork() returns should the job have to be started; sent is what
\* the step adds to the signal log.
start_or_resume(m, procs, f) ==
    LET r == dequeue_rr(m)
        j == r.j
    IN  IF r.m.job[j].state = "NOT_STARTED"
        THEN [m     |-> [r.m EXCEPT !.job[j].pid = f.pid, !.job[j].state = "RUNNING"],
              procs |-> f.procs,
              cur   |-> j,
              sent  |-> <<Sent(f.pid, "fork")>>]
        ELSE IF r.m.job[j].state = "SUSPENDED"
        THEN [m     |-> [r.m EXCEPT !.job[j].state = "RUNNING"],
              procs |-> kill(procs, r.m.job[j].pid, "SIGCONT"),
              cur   |-> j,
              sent  |-> <<Sent(r.m.job[j].pid, "SIGCONT")>>]
        ELSE [m |-> r.m, procs |-> procs, cur |-> j, sent |-> <<>>]

\* Step 4.iii, then the test  if (!any_jobs_left() && current == NULL) break;
DispatchWith(f) ==
    /\ pc = "dispatch"
    /\ \E d \in {IF current = NULL /\ rr_head # NULL
                 THEN start_or_resume(Mem, proc, f)
                 ELSE [m |-> Mem, procs |-> proc, cur |-> current, sent |-> <<>>]} :
          /\ SetMem(d.m)
          /\ proc' = d.procs
          /\ current' = d.cur
          /\ signal_log' = signal_log \o d.sent
          /\ pc' = IF ~any_jobs_left(d.m) /\ d.cur = NULL THEN "done" ELSE "record"
    /\ UNCHANGED <<gantt, gantt_index, completion, arrivals, bursts, t, arrived_at>>

\* The step when fork() succeeds.
Dispatch == DispatchWith(fork(proc))

\* Variant of the trace write that writes no cell for an idle tick.
RecordSkipsIdle ==
    /\ pc = "record"
    /\ gantt' = IF current # NULL THEN Append(gantt, GanttEntry(job, current)) ELSE gantt
    /\ gantt_index' = IF current # NULL THEN gantt_index + 1 ELSE gantt_index
    /\ t' = t + 1
    /\ pc' = IF any_jobs_left(Mem) \/ current # NULL THEN "admit" ELSE "done"
    /\ UNCHANGED <<job, input_head, rr_head, rr_tail, completion, arrivals, bursts,
                   current, proc, arrived_log, arrived_at, signal_log>>

\* gantt[gantt_index++] = current ? current->id : -1;  sleep(1);  t++;  then the
\* loop condition  while (any_jobs_left() || current != NULL).
Record ==
    /\ pc = "record"
    /\ gantt_index < MAX_TIME
    /\ gantt' = Append(gantt, GanttEntry(job, current))
    /\ gantt_index' = gantt_index + 1
    /\ t' = t + 1
    /\ pc' = IF any_jobs_left(Mem) \/ current # NULL THEN "admit" ELSE "done"
    /\ UNCHANGED <<job, input_head, rr_head, rr_tail, completion, arrivals, bursts,
                   current, proc, arrived_log, arrived_at, signal_log>>

Dispatcher == While \/ Admit \/ Run \/ WaitChild \/ Dispatch \/ Record

Worker(p) == sigint_handler(p) \/ worker_exit(p)

Next ==
    \/ While
    \/ Admit
    \/ Run
    \/ WaitChild
    \/ Dispatch
    \/ Record
    \/ \E p \in DOMAIN proc : sigint_handler(p)
    \/ \E p \in DOMAIN proc : worker_exit(p)

Spec == Init /\ [][Next]_vars

\* The dispatcher is a sequential program that keeps stepping, and a worker that
\* obeys stop handles a delivered SIGINT and leaves its loop.
FairSpec ==
    /\ Init
    /\ [][Next]_vars
    /\ WF_vars(Dispatcher)
    /\ WF_vars(\E p \in DOMAIN proc : Worker(p))

\* The dispatcher keeps stepping, but nothing is assumed of the workers: a worker
\* may never handle the SIGINT it was sent and never exit.
FairDispatcherSpec ==
    /\ Init
    /\ [][Next]_vars
    /\ WF_vars(Dispatcher)

\* ------------------------------------------------------------- fork() failure
\* Step 4.iii when the job at the head of the ready queue is to be started and
\* fork() returns -1: main does not test for it, so job->pid = -1, the job is
\* RUNNING and becomes current.
DispatchForkFails ==
    /\ current = NULL
    /\ rr_head # NULL
    /\ job[rr_head].state = "NOT_STARTED"
    /\ DispatchWith(fork_fails(proc))

\* waitpid(-1, NULL, 0), reached when current->pid is -1: it returns with any
\* worker that has exited, reaping it, or at once (ECHILD) when the dispatcher
\* has no child left to wait for; otherwise it blocks.
WaitAnyChild ==
    /\ pc = "wait"
    /\ job[current].pid = -1
    /\ \/ \E p \in DOMAIN proc :
             /\ proc[p].st = "exited"
             /\ proc' = [proc EXCEPT ![p].st = "reaped"]
       \/ /\ \A p \in DOMAIN proc : proc[p].st = "reaped"
          /\ proc' = proc
    /\ completion' = [completion EXCEPT ![job[current].id] = CompletionTick(t)]
    /\ job' = [p \in DOMAIN job \ {current} |-> job[p]]
    /\ current' = NULL
    /\ pc' = "dispatch"
    /\ UNCHANGED <<input_head, rr_head, rr_tail, gantt, gantt_index, arrivals,
                   bursts, t, arrived_log, arrived_at, signal_log>>

NextForkFail ==
    \/ Next
    \/ DispatchForkFails
    \/ WaitAnyChild

SpecForkFail == Init /\ [][NextForkFail]_vars

\* ------------------------------------------------------------- early exit
\* A worker leaves on its own, without having been sent SIGINT: the child
\* whose execl fails calls exit(1), and the worker program that counts its own
\* service time returns from main when the time is up.
exit_on_own(p) ==
    /\ proc[p].st = "running"
    /\ proc[p].keep_running
    /\ proc' = [proc EXCEPT ![p].st = "exited"]
    /\ UNCHANGED DispatcherVars

NextEarlyExit ==
    \/ Next
    \/ \E p \in DOMAIN proc : exit_on_own(p)

SpecEarlyExit == Init /\ [][NextEarlyExit]_vars

\* The dispatcher run on the Stallings Figure 9.5 job set.
InitStallings == InitWith(StallingsJobs)

SpecStallings == InitStallings /\ [][Next]_vars

\* ------------------------------------------------------------- full trace array
\* gantt[gantt_index++] = ... with gantt_index >= MAX_TIME: nothing in main
\* tests the index, so the store goes past the end of gantt[MAX_TIME].  That is
\* undefined: either the store lands in memory the loop does not use and the
\* run goes on (the cell is not part of the array, gantt_index and t are
\* incremented), or the process faults or damages its own state, after which
\* nothing is said about it (pc = "undefined").
RecordOverflow ==
    /\ pc = "record"
    /\ gantt_index >= MAX_TIME
    /\ \/ /\ gantt_index' = gantt_index + 1
          /\ t' = t + 1
          /\ pc' = IF any_jobs_left(Mem) \/ current # NULL THEN "admit" ELSE "done"
       \/ /\ pc' = "undefined"
          /\ UNCHANGED <<gantt_index, t>>
    /\ UNCHANGED <<job, input_head, rr_head, rr_tail, gantt, completion, arrivals,
                   bursts, current, proc, arrived_log, arrived_at, signal_log>>

\* A job file with one job that arrives at tick MAX_TIME.
LateJob == << [arrival |-> MAX_TIME, service |-> 1] >>

InitLate == InitWith(LateJob)

NextLate ==
    \/ Next
    \/ RecordOverflow

SpecLate == InitLate /\ [][NextLate]_vars

\* The three-job scenario Job1(0,3), Job2(1,2), Job3(3,1).
ScenarioJobs ==
    << [arrival |-> 0, service |-> 3], [arrival |-> 1, service |-> 2],
       [arrival |-> 3, service |-> 1] >>

\* The dispatcher run on the bounded job lists and on the three-job scenario.
InitScenario == Init \/ InitWith(ScenarioJobs)

SpecScenario == InitScenario /\ [][Next]_vars

\* ------------------------------------------------------------- statistics
\* print_statistics: ta = completion[i] - arrivals[i];  wt = ta - bursts[i].
Turnaround(i) == completion[i] - arrivals[i]
Waiting(i) == Turnaround(i) - bursts[i]

\* ------------------------------------------------------------- vocabulary of the claims
JobIds == DOMAIN bursts

\* Ids of the jobs that still have a job_t on the heap (not yet finished and freed).
LiveIds == {job[p].id : p \in DOMAIN job}

CompletedIds == JobIds \ LiveIds

AllPositive == \A i \in JobIds : bursts[i] > 0

\* Number of cells of the sequence s that hold x.
CountIn(s, x) == Cardinality({k \in DOMAIN s : s[k] = x})

LoopEnded == pc = "done"

\* ------------------------------------------------------------- C1
\* C1: conservation of service time.  For a job list whose jobs all have a
\* positive service time, once the dispatcher loop has ended every job's id fills
\* exactly total_cpu (bursts[id-1]) cells of the Gantt trace.
C1_Conservation ==
    (LoopEnded /\ AllPositive) =>
        \A i \in JobIds : CountIn(gantt, i) = bursts[i]

\* A finished run of two or more positive jobs in which a job of service 2 was
\* interrupted between its two ticks.
C1_Witness ==
    /\ LoopEnded
    /\ AllPositive
    /\ \E i \in JobIds :
          /\ bursts[i] = 2
          /\ \E a, b \in DOMAIN gantt :
                a + 1 < b /\ gantt[a] = i /\ gantt[b] = i /\ gantt[a + 1] # i

\* ------------------------------------------------------------- C2
\* C2: exactly-once admission.  move_arrivals_to_rr never moves a job twice, and
\* when the run is over it has moved every loaded job exactly once.
C2_ExactlyOnceAdmission ==
    /\ \A i \in JobIds : CountIn(arrived_log, i) <= 1
    /\ LoopEnded => \A i \in JobIds : CountIn(arrived_log, i) = 1

\* A finished run in which two jobs were admitted and share their arrival tick.
C2_Witness ==
    /\ LoopEnded
    /\ \E i, k \in JobIds :
          i # k /\ arrivals[i] = arrivals[k]
          /\ CountIn(arrived_log, i) = 1 /\ CountIn(arrived_log, k) = 1

\* ------------------------------------------------------------- C3
\* C3: admission completeness.  When the admission step of tick t is over no job
\* with arrival <= t is left in the arrival queue; and the jobs it admits enter
\* the ready queue in ascending arrival order, ties in input order: the job
\* admitted by a turn of the loop is due, and no due job still in the arrival
\* queue has a smaller arrival time or the same arrival time and an earlier
\* input position (ids number the input records).  For every order of the
\* input records.
C3_AdmissionComplete ==
    [][/\ (pc = "admit" /\ pc' = "run") =>
             \A p \in Range(InputSeq') : job'[p].arrival > t
       /\ (pc = "admit" /\ Len(arrived_log') = Len(arrived_log) + 1) =>
             LET i == arrived_log'[Len(arrived_log')]
             IN  /\ arrivals[i] <= t
                 /\ \A p \in Range(InputSeq) :
                       job[p].arrival <= t =>
                          \/ arrivals[i] < job[p].arrival
                          \/ arrivals[i] = job[p].arrival /\ i <= job[p].id
      ]_vars

\* ------------------------------------------------------------- C4
\* C4: FIFO fairness.  When the dispatcher assigns the CPU it takes the head of
\* the ready queue, the job queued longest; and every step changes the ready
\* queue only by dequeue at the head and enqueue at the tail: the new queue is
\* the old one, less its head or not, followed by jobs that were not in it, so
\* two jobs that stay queued never change their relative order.
C4_FIFO ==
    [][/\ (pc = "dispatch" /\ current = NULL /\ rr_head # NULL) =>
             (current' = Head(RRSeq) /\ RRSeq' = Tail(RRSeq))
       /\ \E old \in {RRSeq} : \E new \in {RRSeq'} :
             \E d \in {0, 1} :
                /\ d <= Len(old)
                /\ d = 1 => current' = old[1]
                /\ Len(new) >= Len(old) - d
                /\ \A k \in 1..(Len(old) - d) : new[k] = old[k + d]
                /\ \A k \in (Len(old) - d + 1)..Len(new) :
                      \A i \in 1..Len(old) : new[k] # old[i]
                /\ \A k, i \in 1..Len(new) : new[k] = new[i] => k = i
      ]_vars

\* The dispatcher is about to choose among three queued jobs: a suspended job
\* at the head, behind it a job that arrived later and one suspended later.
C4_Witness ==
    /\ pc = "dispatch"
    /\ current = NULL
    /\ Len(RRSeq) = 3
    /\ job[RRSeq[1]].state = "SUSPENDED"
    /\ job[RRSeq[2]].state = "NOT_STARTED"
    /\ job[RRSeq[3]].state = "SUSPENDED"

\* ------------------------------------------------------------- C5
AllWorkersReaped == \A p \in DOMAIN proc : proc[p].st = "reaped"

\* C5: termination.  With workers that obey stop the dispatcher loop eventually
\* ends (pc = "done", from which no step leaves), and it ends with the arrival
\* queue, the ready queue and the assigned slot empty and every job completed
\* (its worker has exited and been waited for, its job_t is freed).
C5_Termination ==
    <>(/\ LoopEnded
       /\ input_head = NULL
       /\ rr_head = NULL
       /\ current = NULL
       /\ CompletedIds = JobIds
       /\ Len(proc) = Cardinality(JobIds)
       /\ AllWorkersReaped)

\* The loop has ended after running three jobs of positive service time.
C5_Witness ==
    /\ LoopEnded
    /\ AllPositive
    /\ Cardinality(JobIds) = 3
    /\ Len(gantt) >= 3
    /\ AllWorkersReaped

\* ------------------------------------------------------------- C6
\* C6: completion ordering.  For every completed job the tick stored in
\* completion[] is at least arrival + service, so the turnaround printed by
\* print_statistics is at least the service time and the waiting time is >= 0.
C6_CompletionOrdering ==
    \A i \in CompletedIds :
        /\ completion[i] >= arrivals[i] + bursts[i]
        /\ Turnaround(i) >= bursts[i]
        /\ Waiting(i) >= 0

\* A finished run where one job never waited and another one did.
C6_Witness ==
    /\ LoopEnded
    /\ \E i, k \in JobIds :
          /\ bursts[i] > 0 /\ bursts[k] > 0
          /\ Waiting(i) = 0
          /\ Waiting(k) > 0

\* ------------------------------------------------------------- C7
StallingsTrace == <<1, 1, 2, 1, 2, 3, 2, 4, 3, 2, 5, 4, 3, 2, 5, 4, 3, 2, 4, 4>>

\* C7: reference trace.  On the Stallings Figure 9.5 job set the Gantt trace is
\* at every moment a prefix of J1 J1 J2 J1 J2 J3 J2 J4 J3 J2 J5 J4 J3 J2 J5 J4 J3
\* J2 J4 J4, and when the loop has ended it is the whole of it: 20 entries, none
\* of them idle.
C7_ReferenceTrace ==
    /\ Len(gantt) <= Len(StallingsTrace)
    /\ gantt = SubSeq(StallingsTrace, 1, Len(gantt))
    /\ gantt_index = Len(gantt)
    /\ LoopEnded => (gantt_index = 20 /\ gantt = StallingsTrace
                     /\ \A k \in DOMAIN gantt : gantt[k] # IDLE)

\* The run on the Stallings job set has ended with its five jobs completed.
C7_Witness ==
    /\ LoopEnded
    /\ Cardinality(JobIds) = 5
    /\ CompletedIds = JobIds
    /\ Len(gantt) = 20

\* ------------------------------------------------------------- C8
\* C8: single CPU.  The assigned slot holds at most one job, a job on the heap
\* whose state is RUNNING is the job in the assigned slot (so at most one job is
\* RUNNING), and every job in the ready queue is NOT_STARTED or SUSPENDED.
C8_SingleCPU ==
    /\ current \in DOMAIN job \cup {NULL}
    /\ \A p \in DOMAIN job : job[p].state = "RUNNING" => p = current
    /\ Cardinality({p \in DOMAIN job : job[p].state = "RUNNING"}) <= 1
    /\ \A p \in Range(RRSeq) : job[p].state \in {"NOT_STARTED", "SUSPENDED"}

\* A job holds the CPU while a suspended job and a not yet started job wait.
C8_Witness ==
    /\ current # NULL
    /\ job[current].state = "RUNNING"
    /\ \E p, q \in Range(RRSeq) :
          job[p].state = "SUSPENDED" /\ job[q].state = "NOT_STARTED"

\* ------------------------------------------------------------- C9
\* C9: remaining-time bounds.  For every job of positive service time the
\* remaining field is never below 0, no step increases it, and it is exactly 0
\* when the dispatcher declares the job complete (stop sent, waiting for exit).
C9_RemainingBounds ==
    /\ [](\A p \in DOMAIN job :
             job[p].total_cpu > 0 =>
                /\ job[p].remaining >= 0
                /\ job[p].remaining <= job[p].total_cpu
                /\ (pc = "wait" /\ p = current) => job[p].remaining = 0)
    /\ [][\A p \in DOMAIN job \cap DOMAIN job' :
             job[p].total_cpu > 0 => job'[p].remaining <= job[p].remaining]_vars

\* The dispatcher declares complete a job of service time 2 that was suspended
\* on the way.
C9_Witness ==
    /\ pc = "wait"
    /\ current # NULL
    /\ job[current].total_cpu = 2
    /\ job[current].remaining = 0
    /\ \E a, b \in DOMAIN gantt :
          a + 1 < b /\ gantt[a] = job[current].id /\ gantt[b] = job[current].id
          /\ gantt[a + 1] # job[current].id

\* ------------------------------------------------------------- C10
\* C10: idle ticks.  Whenever, after admission and dispatch, the ready queue and
\* the assigned slot are empty and the arrival queue still holds a job, the
\* trace entry written for that tick is the idle sentinel -1; this holds at
\* every such tick, so idle repeats until a job is admitted.
C10_IdleTicks ==
    [][(pc = "record" /\ rr_head = NULL /\ current = NULL /\ input_head # NULL) =>
          (/\ Len(gantt') = Len(gantt) + 1
           /\ gantt'[gantt_index + 1] = IDLE
           /\ t' = t + 1)
      ]_vars

\* Two idle ticks in a row have been recorded and a job is still to arrive.
C10_Witness ==
    /\ pc = "admit"
    /\ input_head # NULL
    /\ Len(gantt) >= 2
    /\ gantt[Len(gantt)] = IDLE
    /\ gantt[Len(gantt) - 1] = IDLE

\* ------------------------------------------------------------- C11
\* Jobs for which fork() was called and returned -1.
FailedJobs == {p \in DOMAIN job : job[p].state # "NOT_STARTED" /\ job[p].pid = -1}

\* C11: worker start failure.  A job whose fork() failed is excluded from
\* scheduling: it is not in the assigned slot, not in the ready queue, it has
\* not been charged, it fills no cell of the trace, and no signal is sent on its
\* behalf (no kill call with its pid field, -1, as the target).
C11_StartFailureExcluded ==
    \A p \in FailedJobs :
        /\ current # p
        /\ p \notin Range(RRSeq)
        /\ job[p].remaining = job[p].total_cpu
        /\ CountIn(gantt, job[p].id) = 0
        /\ \A k \in DOMAIN signal_log :
              signal_log[k].pid = -1 => signal_log[k].sig = "fork"

\* ------------------------------------------------------------- C12
\* C12: progress despite an uncooperative worker.  Whatever the workers do, and
\* so also when the worker that was sent SIGINT never exits, the dispatcher does
\* not stay for ever in its wait for that worker: again and again it is
\* somewhere else in its loop.
C12_NeverStalls == []<>(pc # "wait")

\* ------------------------------------------------------------- C13
\* The worker of job p has exited (and has not been waited for).
WorkerGone(p) ==
    /\ job[p].pid \in DOMAIN proc
    /\ proc[job[p].pid].st = "exited"

\* C13: unexpected-exit reconciliation.  When step 4.ii finds that the worker
\* of the current job has exited on its own, the job is treated as completed
\* whatever its remaining time (the slot is cleared, or the dispatcher goes on
\* to collect the worker and clear it), it is not put back in the ready queue
\* and no signal is sent to it.
C13_ExitReconciled ==
    [][(pc = "run" /\ current # NULL /\ WorkerGone(current)) =>
          /\ current' = NULL \/ pc' = "wait"
          /\ current \notin Range(RRSeq')
          /\ signal_log' = signal_log
      ]_vars

\* ------------------------------------------------------------- C14
\* The state changes a job_t may go through while it is on the heap.
LegalTransitions ==
    {<<"NOT_STARTED", "RUNNING">>, <<"RUNNING", "SUSPENDED">>,
     <<"SUSPENDED", "RUNNING">>}

\* The signals of the log sent to process pid, in order.
SignalsTo(pid) ==
    LET F[k \in 0..Len(signal_log)] ==
            IF k = 0 THEN <<>>
            ELSE IF signal_log[k].pid = pid THEN Append(F[k - 1], signal_log[k].sig)
            ELSE F[k - 1]
    IN  F[Len(signal_log)]

\* C14: legal life-cycle.  A step changes the state of a job only along
\* NOT_STARTED -> RUNNING, RUNNING -> SUSPENDED, SUSPENDED -> RUNNING; a job is
\* completed (freed) only from RUNNING; fork is called in exactly the steps
\* that take a job from NOT_STARTED to RUNNING, so once per job; a completed
\* job never comes back to the heap, the ready queue or the assigned slot, its
\* worker is sent nothing after the stop signal, its remaining time is no
\* longer touched and the trace does not name it after its completion tick.
C14_LifeCycle ==
    /\ [][
          /\ \A p \in DOMAIN job \cap DOMAIN job' :
                job'[p].state # job[p].state =>
                   <<job[p].state, job'[p].state>> \in LegalTransitions
          /\ \A p \in DOMAIN job \ DOMAIN job' : job[p].state = "RUNNING"
          /\ DOMAIN job' \subseteq DOMAIN job
          /\ (\E p \in DOMAIN job \cap DOMAIN job' :
                  job[p].state = "NOT_STARTED" /\ job'[p].state = "RUNNING")
             <=> (/\ Len(signal_log') = Len(signal_log) + 1
                  /\ signal_log'[Len(signal_log')].sig = "fork")
       ]_vars
    /\ [](/\ current \in DOMAIN job \cup {NULL}
          /\ Range(RRSeq) \subseteq DOMAIN job
          /\ \A p \in DOMAIN job :
                job[p].state # "NOT_STARTED" =>
                   CountIn(SignalsTo(job[p].pid), "fork") = 1
          /\ \A pid \in DOMAIN proc :
                \E sigs \in {SignalsTo(pid)} :
                   \A n \in DOMAIN sigs : sigs[n] = "SIGINT" => n = Len(sigs)
          /\ \A i \in CompletedIds :
                \A k \in DOMAIN gantt : gantt[k] = i => k <= completion[i])

\* A run has ended in which a job was started, suspended, resumed and completed.
C14_Witness ==
    /\ LoopEnded
    /\ CompletedIds = JobIds
    /\ \E pid \in DOMAIN proc :
          SignalsTo(pid) = <<"fork", "SIGTSTP", "SIGCONT", "SIGINT">>

\* ------------------------------------------------------------- C15
\* The control actions that may directly precede each control action.
MayPrecede(sig) ==
    CASE sig = "SIGTSTP" -> {"fork", "SIGCONT"}
      [] sig = "SIGCONT" -> {"SIGTSTP"}
      [] sig = "SIGINT"  -> {"fork", "SIGCONT"}
      [] OTHER           -> {}

\* The state a worker must be in when it is sent sig.
StateFor(sig) == IF sig = "SIGCONT" THEN "stopped" ELSE "running"

\* C15: ordered control signals.  What the dispatcher issues to one worker is
\* fork first, then SIGTSTP and SIGCONT strictly alternating, SIGTSTP first,
\* then SIGINT once, after the fork or after a SIGCONT, and nothing after it;
\* when the loop has ended every worker has had its SIGINT; and at the moment
\* of the kill call a SIGTSTP or SIGINT goes to a running worker and a SIGCONT
\* to a stopped one.
C15_OrderedSignals ==
    /\ [](\A pid \in DOMAIN proc :
             \E sigs \in {SignalsTo(pid)} :
                /\ Len(sigs) >= 1
                /\ sigs[1] = "fork"
                /\ \A n \in 2..Len(sigs) : sigs[n - 1] \in MayPrecede(sigs[n])
                /\ LoopEnded => sigs[Len(sigs)] = "SIGINT")
    /\ [](\A n \in DOMAIN signal_log : signal_log[n].pid \in DOMAIN proc)
    /\ [][Len(signal_log') > Len(signal_log) =>
             /\ Len(signal_log') = Len(signal_log) + 1
             /\ \E e \in {signal_log'[Len(signal_log')]} :
                   e.sig # "fork" =>
                      /\ e.pid \in DOMAIN proc
                      /\ proc[e.pid].st = StateFor(e.sig)
                      /\ ~proc[e.pid].sigint
       ]_vars

\* The current job, on its second run, has just been sent SIGINT while the
\* worker of another job is stopped.
C15_Witness ==
    /\ pc = "wait"
    /\ SignalsTo(job[current].pid) = <<"fork", "SIGTSTP", "SIGCONT", "SIGINT">>
    /\ \E pid \in DOMAIN proc :
          proc[pid].st = "stopped" /\ SignalsTo(pid) = <<"fork", "SIGTSTP">>

\* ------------------------------------------------------------- C16
\* Ids of the jobs that move_arrivals_to_rr admitted at tick n.
AdmittedAt(n) == {arrived_log[k] : k \in {i \in DOMAIN arrived_at : arrived_at[i] = n}}

\* C16: preemption on arrival.  When step 4.ii of tick t finds a job in the
\* assigned slot that still owes service after the tick it has just run
\* (remaining >= 2 before the charge for that tick) and the admission step of
\* tick t admitted at least one job, the holder is sent SIGTSTP, marked
\* SUSPENDED and appended to the ready queue behind the admitted jobs, the slot
\* is cleared, and the holder has been charged only for the trace cells that
\* name it, none of them for tick t; in the trace, a cell naming a job that
\* still owes service is followed, when a job was admitted at the next tick,
\* by a cell naming another job; and on Job1(0,3), Job2(1,2), Job3(3,1) the
\* trace starts Job1, Job2.
C16_PreemptOnArrival ==
    /\ [][(pc = "run" /\ current # NULL /\ job[current].remaining >= 2
              /\ AdmittedAt(t) # {}) =>
             /\ current' = NULL
             /\ RRSeq' = Append(RRSeq, current)
             /\ \A i \in AdmittedAt(t) : \E k \in DOMAIN RRSeq : job[RRSeq[k]].id = i
             /\ job'[current].state = "SUSPENDED"
             /\ proc'[job[current].pid].st = "stopped"
             /\ signal_log' = Append(signal_log, Sent(job[current].pid, "SIGTSTP"))
             /\ job'[current].remaining =
                   job[current].total_cpu - CountIn(gantt, job[current].id)
       ]_vars
    /\ [](\A n \in 1..(Len(gantt) - 1) :
             (/\ gantt[n] # IDLE
              /\ CountIn(SubSeq(gantt, 1, n), gantt[n]) < bursts[gantt[n]]
              /\ AdmittedAt(n) # {}) => gantt[n + 1] # gantt[n])
    /\ []((arrivals = <<0, 1, 3>> /\ bursts = <<3, 2, 1>>) =>
             /\ Len(gantt) >= 1 => gantt[1] = 1
             /\ Len(gantt) >= 2 => gantt[2] = 2
             /\ LoopEnded => Len(gantt) = 6)

\* Tick 3 of the three-job scenario: Job3 has been admitted behind Job2, and
\* Job1, which ran tick 2 and still owes one tick, has been put behind them.
C16_Witness ==
    /\ arrivals = <<0, 1, 3>>
    /\ bursts = <<3, 2, 1>>
    /\ pc = "dispatch"
    /\ t = 3
    /\ current = NULL
    /\ RRSeq = <<2, 3, 1>>
    /\ job[1].state = "SUSPENDED"
    /\ job[1].remaining = 1
    /\ gantt = <<1, 2, 1>>

\* ------------------------------------------------------------- C17
\* Step 4.ii of tick t is about to charge a job that will still have remaining
\* time, the ready queue was not empty when the previous tick ended (it holds a
\* job that was not admitted at tick t), and a job was admitted at tick t.
ContentionThenArrival ==
    /\ pc = "run"
    /\ current # NULL
    /\ job[current].remaining >= 2
    /\ \E p \in Range(RRSeq) : job[p].id \notin AdmittedAt(t)
    /\ AdmittedAt(t) # {}

\* Position of pointer p in the ready queue q (0 when it is not there).
PosIn(q, p) == IF \E k \in DOMAIN q : q[k] = p
               THEN CHOOSE k \in DOMAIN q : q[k] = p
               ELSE 0

\* C17, as claimed: preemption on contention comes before the next admission.
\* A job that ran a tick, still has remaining time and found the ready queue
\* non-empty at the end of that tick is in the ready queue ahead of every job
\* admitted at the following tick.
C17_AheadOfNextArrivals ==
    [][ContentionThenArrival =>
          /\ PosIn(RRSeq', current) > 0
          /\ \A p \in Range(RRSeq') :
                job'[p].id \in AdmittedAt(t) => PosIn(RRSeq', current) < PosIn(RRSeq', p)
      ]_vars

\* C17, amended: preemption on contention comes after the next admission.  A
\* job that ran a tick, still has remaining time and found the ready queue
\* non-empty at the end of that tick keeps the assigned slot, RUNNING, while
\* the jobs of the following tick are admitted; step 4.ii of that tick then
\* appends it to the ready queue, so it is queued behind every job admitted at
\* the following tick.
C17_BehindNextArrivals ==
    /\ [][ContentionThenArrival =>
             /\ RRSeq' = Append(RRSeq, current)
             /\ \A p \in Range(RRSeq') :
                   job'[p].id \in AdmittedAt(t) =>
                      /\ PosIn(RRSeq, p) > 0
                      /\ PosIn(RRSeq', p) < PosIn(RRSeq', current)
       ]_vars
    /\ [][(pc = "admit" /\ current # NULL) =>
             /\ current' = current
             /\ job'[current].state = "RUNNING"
             /\ current \notin Range(RRSeq')
       ]_vars

\* Step 4.ii has just re-enqueued the job that ran the previous tick: it is last
\* in the ready queue, behind a job that was waiting before and a job admitted
\* at this tick.
C17_Witness ==
    /\ pc = "dispatch"
    /\ current = NULL
    /\ Len(RRSeq) = 3
    /\ job[RRSeq[1]].id \notin AdmittedAt(t)
    /\ job[RRSeq[2]].id \in AdmittedAt(t)
    /\ job[RRSeq[3]].state = "SUSPENDED"
    /\ Len(gantt) = t
    /\ t >= 1
    /\ gantt[t] = job[RRSeq[3]].id

\* ------------------------------------------------------------- C18
\* Cells of the trace that name job i, as C indices (gantt[k + 1] is C's gantt[k]).
CellsOf(i) == {k \in 0..(Len(gantt) - 1) : gantt[k + 1] = i}

\* C18: completion tick.  For every completed job the trace has a cell that
\* names it, and completion[id-1] is the C index of the last such cell plus 1.
C18_CompletionAfterLastRun ==
    \A i \in CompletedIds :
        /\ CellsOf(i) # {}
        /\ \E last \in CellsOf(i) :
              /\ \A k \in CellsOf(i) : k <= last
              /\ completion[i] = last + 1

\* The loop has ended; some job was completed before the last tick after
\* having waited in the ready queue between two of its runs.
C18_Witness ==
    /\ LoopEnded
    /\ Cardinality(JobIds) >= 2
    /\ CompletedIds = JobIds
    /\ \E i \in JobIds :
          /\ completion[i] < Len(gantt)
          /\ completion[i] > arrivals[i] + bursts[i]
          /\ Cardinality(CellsOf(i)) = 2

\* ------------------------------------------------------------- C19
\* C19: trace shape.  gantt_index counts the written cells; when an iteration
\* of the loop has ended and when the loop has ended gantt_index equals t; a
\* step either leaves the trace alone or appends one cell to it, it appends
\* exactly when it advances t by one, and the cell it appends, cell t, holds
\* the id of the job in the assigned slot after the dispatch step of tick t, or
\* -1 when the slot is empty.
C19_TraceShape ==
    /\ [](/\ gantt_index = Len(gantt)
          /\ pc \in {"while", "admit", "done"} => gantt_index = t)
    /\ [][/\ \/ gantt' = gantt
              \/ /\ Len(gantt') = Len(gantt) + 1
                 /\ SubSeq(gantt', 1, Len(gantt)) = gantt
          /\ t' \in {t, t + 1}
          /\ (t' = t + 1) <=> (Len(gantt') = Len(gantt) + 1)
          /\ (t' = t + 1) =>
                /\ pc = "record"
                /\ gantt'[t + 1] = IF current = NULL THEN IDLE ELSE job[current].id
                /\ current' = current
       ]_vars

\* Three ticks have been recorded, the middle one idle.
C19_Witness ==
    /\ pc = "admit"
    /\ t = 3
    /\ gantt_index = 3
    /\ gantt[1] # IDLE
    /\ gantt[2] = IDLE
    /\ gantt[3] # IDLE

\* ------------------------------------------------------------- C20
\* C20: no preemption without contention.  When step 4.ii charges a job that
\* still has remaining time afterwards, the job is suspended and re-enqueued if
\* and only if the ready queue is not empty at that moment; when it is empty
\* the job keeps the assigned slot, stays RUNNING, no signal is sent and its
\* worker is left as it is; a job that is in the slot when step 4.iii begins
\* stays there, RUNNING, and its id is the cell written for that tick.
C20_NoPreemptionWithoutContention ==
    [][/\ (pc = "run" /\ current # NULL /\ job[current].remaining >= 2) =>
             /\ (rr_head # NULL) <=>
                   (/\ current' = NULL
                    /\ job'[current].state = "SUSPENDED"
                    /\ PosIn(RRSeq', current) > 0)
             /\ (rr_head = NULL) =>
                   /\ current' = current
                   /\ job'[current].state = "RUNNING"
                   /\ RRSeq' = <<>>
                   /\ signal_log' = signal_log
                   /\ proc' = proc
       /\ (pc = "dispatch" /\ current # NULL) =>
             /\ current' = current
             /\ job'[current].state = "RUNNING"
             /\ signal_log' = signal_log
       /\ (pc = "record" /\ current # NULL) =>
             /\ job[current].state = "RUNNING"
             /\ gantt' = Append(gantt, job[current].id)
      ]_vars

\* A job of service time 2 has been charged for its first tick with nobody
\* waiting, and has kept the slot, while another job is still to arrive.
C20_Witness ==
    /\ pc = "dispatch"
    /\ current # NULL
    /\ job[current].total_cpu = 2
    /\ job[current].remaining = 1
    /\ job[current].state = "RUNNING"
    /\ rr_head = NULL
    /\ input_head # NULL
    /\ SignalsTo(job[current].pid) = <<"fork">>

\* ------------------------------------------------------------- C21
\* C21: work conservation.  When the cell written for tick t is idle (the
\* assigned slot is empty after the dispatch step), every job whose arrival
\* time is <= t has already completed; for every order of the input records.
C21_WorkConserving ==
    [][(pc = "record" /\ current = NULL) =>
          \A i \in JobIds : arrivals[i] <= t => i \in CompletedIds
      ]_vars

\* ------------------------------------------------------------- C22
\* C22: trace capacity.  gantt_index never exceeds MAX_TIME, the number of
\* cells of gantt[], and the process is never in the undefined condition that
\* follows a store outside the array.
C22_TraceCapacity ==
    /\ gantt_index <= MAX_TIME
    /\ pc # "undefined"

\* ------------------------------------------------------------- C23
\* The places where job i is: "input" (arrival queue), "rr" (ready queue),
\* "slot" (assigned slot), "completed" (its job_t is freed).
PlacesOf(i) ==
    {"input" : p \in {q \in Range(InputSeq) : job[q].id = i}}
    \cup {"rr" : p \in {q \in Range(RRSeq) : job[q].id = i}}
    \cup {"slot" : p \in {q \in DOMAIN job : q = current /\ job[q].id = i}}
    \cup {"completed" : p \in {q \in CompletedIds : q = i}}

\* C23: queue disjointness.  Every job is in exactly one of the arrival queue,
\* the ready queue, the assigned slot and completed; no queue holds a job_t
\* twice; the ready queue does not hold the current job; rr_tail is NULL
\* exactly when rr_head is NULL, and otherwise it is the last job of the queue.
C23_QueueDisjointness ==
    /\ \A i \in JobIds : Cardinality(PlacesOf(i)) = 1
    /\ \A a, b \in DOMAIN RRSeq : RRSeq[a] = RRSeq[b] => a = b
    /\ \A a, b \in DOMAIN InputSeq : InputSeq[a] = InputSeq[b] => a = b
    /\ Len(RRSeq) + Len(InputSeq) + (IF current = NULL THEN 0 ELSE 1)
          = Cardinality(DOMAIN job)
    /\ current \notin Range(RRSeq)
    /\ (rr_tail = NULL) <=> (rr_head = NULL)
    /\ rr_head # NULL => (rr_tail = RRSeq[Len(RRSeq)] /\ job[rr_tail].next = NULL)

\* One job is still to arrive, one waits suspended in the ready queue and one
\* holds the CPU.
C23_Witness ==
    /\ Len(InputSeq) = 1
    /\ Len(RRSeq) = 1
    /\ job[rr_head].state = "SUSPENDED"
    /\ current # NULL
    /\ job[current].state = "RUNNING"
    /\ pc = "record"

====
